---- MODULE Spec2Model ----
(***************************************************************************)
(* Model of jedi/evaluate/param.py: get_executed_params binds the unpacked *)
(* arguments of a call to the formal parameters of a function definition   *)
(* and records static-analysis issues; create_default_params builds the    *)
(* parameters of a function without a call.                                *)
(*                                                                         *)
(* A binding pass is one behaviour: Init chooses the function definition,  *)
(* the unpacked argument list and the number of calling nodes, and the     *)
(* actions follow the statements of get_executed_params in program order.  *)
(***************************************************************************)
EXTENDS Integers, Sequences, FiniteSets, TLC

\* ------------------------------------------------------------------------
\* Bounds of the model
\* ------------------------------------------------------------------------
MaxParams == 3
MaxArgs == 3
MaxCallingNodes == 2

\* Parameter names by position.  The names of one signature are distinct
\* (the language rejects a repeated parameter name), so only their identity
\* matters and the i-th parameter is called Names[i].
Names == <<"a", "b", "c", "d", "e">>
\* Keyword names that can occur in a call and name no parameter.
OrphanNames == {"q", "r"}

\* The key of an unnamed argument (Python None).
None == "None"
\* var_arg_iterator exhausted: next(var_arg_iterator, (None, None)) has no
\* argument to hand over.
NoArgument == 0

\* ------------------------------------------------------------------------
\* Inputs: the function definition and the call
\* ------------------------------------------------------------------------
\* A parameter of funcdef.get_params(): its name, star_count (0 plain,
\* 1 *args, 2 **kwargs) and whether it has a default.
ParamShapes ==
    { [star_count |-> 0, has_default |-> FALSE],
      [star_count |-> 0, has_default |-> TRUE],
      [star_count |-> 1, has_default |-> FALSE],
      [star_count |-> 2, has_default |-> FALSE] }

MkParam(i, sh) ==
    [name |-> Names[i], star_count |-> sh.star_count, has_default |-> sh.has_default]

\* The grammar of a parameter list: at most one *args parameter, and a
\* **kwargs parameter only in the last place.
GrammarAllows(sig) ==
    /\ Cardinality({i \in DOMAIN sig : sig[i].star_count = 1}) <= 1
    /\ \A i \in DOMAIN sig : sig[i].star_count = 2 => i = Len(sig)

AllParamLists ==
    UNION { { [i \in 1..n |-> MkParam(i, shapes[i])] : shapes \in [1..n -> ParamShapes] }
            : n \in 0..MaxParams }

Signatures == { sig \in AllParamLists : GrammarAllows(sig) }

\* The lazy contexts a call can hand over: LazyTreeContext (a syntax node of
\* the call) or LazyKnownContext (values that were already inferred).
ArgumentTypes == {"LazyTreeContext", "LazyKnownContext"}

\* One (key, lazy_context) pair of var_args.unpack(funcdef).
ItemsFor(sig) ==
    [key : {None} \cup {sig[i].name : i \in DOMAIN sig} \cup OrphanNames,
     type : ArgumentTypes]

StreamsFor(sig) ==
    UNION { [1..m -> ItemsFor(sig)] : m \in 0..MaxArgs }

VARIABLES
    params,                   \* funcdef.get_params()
    unpacked_va,              \* list(var_args.unpack(funcdef))
    calling_nodes,            \* len(var_args.get_calling_nodes())
    pushes,                   \* var_arg_iterator.pushes
    iterator,                 \* var_arg_iterator.iterator: items already drawn
    non_matching_keys,        \* dict in insertion order: <<key, argument>>
    keys_used,                \* dict key -> ExecutedParam
    keys_only,
    had_multiple_value_error,
    param,                    \* index of the parameter of the for loop
    key,                      \* key of the item in hand
    argument,                 \* item in hand (index in unpacked_va)
    result_params,
    remaining_arguments,      \* list(var_arg_iterator) after the loop
    analysis,                 \* issues handed to analysis.add, in order
    pc                        \* position in get_executed_params

vars == <<params, unpacked_va, calling_nodes, pushes, iterator,
          non_matching_keys, keys_used, keys_only, had_multiple_value_error,
          param, key, argument, result_params, remaining_arguments,
          analysis, pc>>

inputs == <<params, unpacked_va, calling_nodes>>

\* ------------------------------------------------------------------------
\* Lazy contexts and executed parameters
\* ------------------------------------------------------------------------
NoDict == <<>>

\* The lazy context of the call argument unpacked_va[i], handed over as is.
ArgumentContext(i) ==
    [type |-> unpacked_va[i].type, origin |-> "argument", arg |-> i,
     context |-> "calling", items |-> <<>>, dct |-> NoDict]

LazyUnknownContext ==
    [type |-> "LazyUnknownContext", origin |-> "unknown", arg |-> 0,
     context |-> "none", items |-> <<>>, dct |-> NoDict]

\* LazyTreeContext(context, param.default): the default of parameter p,
\* evaluated in the given context.
DefaultContext(context, p) ==
    [type |-> "LazyTreeContext", origin |-> "default", arg |-> p,
     context |-> context, items |-> <<>>, dct |-> NoDict]

\* LazyKnownContext(iterable.FakeSequence(evaluator, u'tuple', list))
FakeSequence(lazy_context_list) ==
    [type |-> "LazyKnownContext", origin |-> "FakeSequence", arg |-> 0,
     context |-> "none", items |-> lazy_context_list, dct |-> NoDict]

\* LazyKnownContext(iterable.FakeDict(evaluator, dict)): the dict as its
\* <<key, argument>> pairs in insertion order.
FakeDict(d) ==
    [type |-> "LazyKnownContext", origin |-> "FakeDict", arg |-> 0,
     context |-> "none", items |-> <<>>, dct |-> d]

ExecutedParam(param_node, lazy_context) ==
    [param_node |-> param_node, lazy_context |-> lazy_context]

\* set(param_dict): the names of the parameters.
ParamNames == {params[i].name : i \in DOMAIN params}

\* The parameter of the loop in the place of the parameter the key names.
param_dict_loop_param(name) == param

\* param_dict[name]: the parameter node with that name.
param_dict(name) == CHOOSE i \in DOMAIN params : params[i].name = name

\* ------------------------------------------------------------------------
\* PushBackIterator over unpacked_va
\* ------------------------------------------------------------------------
\* The iterator has an item left.
HasNext(ps, it) == Len(ps) > 0 \/ it < Len(unpacked_va)

\* next(var_arg_iterator): a pushed-back item first, else the next item of
\* the underlying iterator.
Take(ps, it) ==
    IF Len(ps) > 0
      THEN [item |-> ps[Len(ps)], pushes |-> SubSeq(ps, 1, Len(ps) - 1), iterator |-> it]
      ELSE [item |-> it + 1, pushes |-> ps, iterator |-> it + 1]

push_back(ps, i) == Append(ps, i)

RECURSIVE Reverse(_)
Reverse(s) == IF s = <<>> THEN <<>> ELSE Append(Reverse(Tail(s)), Head(s))

\* list(var_arg_iterator): everything the iterator still yields, in order.
Remaining(ps, it) ==
    Reverse(ps) \o [j \in 1..(Len(unpacked_va) - it) |-> it + j]

\* The next item is looked at and stays in the iterator.
NextOrNone_peek(ps, it) ==
    IF HasNext(ps, it)
      THEN LET t == Take(ps, it)
           IN [key |-> unpacked_va[t.item].key, argument |-> t.item,
               pushes |-> ps, iterator |-> it]
      ELSE [key |-> None, argument |-> NoArgument, pushes |-> ps, iterator |-> it]

\* key, argument = next(var_arg_iterator, (None, None))
NextOrNone(ps, it) ==
    IF HasNext(ps, it)
      THEN LET t == Take(ps, it)
           IN [key |-> unpacked_va[t.item].key, argument |-> t.item,
               pushes |-> t.pushes, iterator |-> t.iterator]
      ELSE [key |-> None, argument |-> NoArgument, pushes |-> ps, iterator |-> it]

\* ------------------------------------------------------------------------
\* Issues
\* ------------------------------------------------------------------------
\* A calling node of var_args.get_calling_nodes().
CallingNode(n) == [kind |-> "calling_node", n |-> n]
\* The node of a call argument: lazy_context.data, or its parent when that
\* is an argument node.
ArgumentNode(i) == [kind |-> "argument", n |-> i]

KeyMessage(k) ==
    [key |-> k, before |-> "", lower |-> 0, takes |-> 0, given |-> 0]

\* Only the parameters with a default are counted, not the ones with a star.
error_argument_count_defaults_only(actual_count) ==
    LET default_arguments ==
            Cardinality({i \in DOMAIN params : params[i].has_default})
    IN IF default_arguments = 0
         THEN [key |-> None, before |-> "exactly ", lower |-> Len(params),
               takes |-> Len(params), given |-> actual_count]
         ELSE [key |-> None, before |-> "from", lower |-> Len(params) - default_arguments,
               takes |-> Len(params), given |-> actual_count]

\* _error_argument_count(funcdef, actual_count)
error_argument_count(actual_count) ==
    LET default_arguments ==
            Cardinality({i \in DOMAIN params :
                            params[i].has_default \/ params[i].star_count # 0})
    IN IF default_arguments = 0
         THEN [key |-> None, before |-> "exactly ", lower |-> Len(params),
               takes |-> Len(params), given |-> actual_count]
         ELSE [key |-> None, before |-> "from", lower |-> Len(params) - default_arguments,
               takes |-> Len(params), given |-> actual_count]

Issue(error_name, node, message) ==
    [name |-> error_name, node |-> node, message |-> message]

\* for node in var_args.get_calling_nodes(): analysis.add(..., node, message=m)
AddForCallingNodes(error_name, message) ==
    [n \in 1..calling_nodes |-> Issue(error_name, CallingNode(n), message)]

\* _add_argument_issue(parent_context, error_name, lazy_context, message):
\* only a LazyTreeContext has a node to report.
add_argument_issue(error_name, i, message) ==
    IF unpacked_va[i].type = "LazyTreeContext"
      THEN <<Issue(error_name, ArgumentNode(i), message)>>
      ELSE <<>>

\* ------------------------------------------------------------------------
\* get_executed_params
\* ------------------------------------------------------------------------
NoKeys == [k \in {} |-> ExecutedParam(0, LazyUnknownContext)]

\* A known key keeps its first value.
DictSet_keep_first(d, k, v) ==
    IF \E j \in DOMAIN d : d[j][1] = k
      THEN d
      ELSE Append(d, <<k, v>>)

\* d[k] = v on a dict kept in insertion order: a known key keeps its place
\* and takes the new value.
DictSet(d, k, v) ==
    IF \E j \in DOMAIN d : d[j][1] = k
      THEN [j \in DOMAIN d |-> IF d[j][1] = k THEN <<k, v>> ELSE d[j]]
      ELSE Append(d, <<k, v>>)

Init ==
    /\ params \in Signatures
    /\ unpacked_va \in StreamsFor(params)
    /\ calling_nodes \in 0..MaxCallingNodes
    /\ pushes = <<>>
    /\ iterator = 0
    /\ non_matching_keys = <<>>
    /\ keys_used = NoKeys
    /\ keys_only = FALSE
    /\ had_multiple_value_error = FALSE
    /\ param = 0
    /\ key = None
    /\ argument = NoArgument
    /\ result_params = <<>>
    /\ remaining_arguments = <<>>
    /\ analysis = <<>>
    /\ pc = "for"

\* Lines 79 and 84: the loop goes to the next parameter and draws an item.
ForNext ==
    /\ pc = "for"
    /\ param < Len(params)
    /\ LET n == NextOrNone(pushes, iterator)
       IN /\ key' = n.key
          /\ argument' = n.argument
          /\ pushes' = n.pushes
          /\ iterator' = n.iterator
    /\ param' = param + 1
    /\ pc' = "while"
    /\ UNCHANGED <<inputs, non_matching_keys, keys_used, keys_only,
                   had_multiple_value_error, result_params,
                   remaining_arguments, analysis>>

\* Line 79: no parameter is left, the loop ends.
ForExit ==
    /\ pc = "for"
    /\ param = Len(params)
    /\ pc' = "consolidated"
    /\ UNCHANGED <<inputs, pushes, iterator, non_matching_keys, keys_used,
                   keys_only, had_multiple_value_error, param, key, argument,
                   result_params, remaining_arguments, analysis>>

\* The later keyword takes the place of the first value of the key.
KeysUsedAfterKeyword_overwrite(k, a) ==
    (k :> ExecutedParam(param_dict(k), ArgumentContext(a))) @@ keys_used

\* Lines 92-100: keys_used after the named item (k, a) whose key names a
\* parameter; the first value of a key stays.
KeysUsedAfterKeyword(k, a) ==
    IF k \in DOMAIN keys_used
      THEN keys_used
      ELSE (k :> ExecutedParam(param_dict(k), ArgumentContext(a))) @@ keys_used

\* Lines 85-101: one turn of the while loop on a named item.
DrainKeyword ==
    /\ pc = "while"
    /\ key # None
    /\ keys_only' = TRUE
    /\ IF key \notin ParamNames
         THEN /\ non_matching_keys' = DictSet(non_matching_keys, key, argument)
              /\ UNCHANGED <<keys_used, had_multiple_value_error, analysis>>
         ELSE /\ keys_used' = KeysUsedAfterKeyword(key, argument)
              /\ UNCHANGED non_matching_keys
              /\ IF key \in DOMAIN keys_used
                   THEN /\ had_multiple_value_error' = TRUE
                        /\ analysis' = analysis \o
                              AddForCallingNodes("type-error-multiple-values",
                                                 KeyMessage(key))
                   ELSE /\ UNCHANGED <<had_multiple_value_error, analysis>>
    /\ LET n == NextOrNone(pushes, iterator)
       IN /\ key' = n.key
          /\ argument' = n.argument
          /\ pushes' = n.pushes
          /\ iterator' = n.iterator
    /\ UNCHANGED <<inputs, param, result_params, remaining_arguments, pc>>

\* Lines 144-145: keys_used after the parameter got result_arg.
KeysUsedAfterResult(result_arg) ==
    IF result_arg.type # "LazyUnknownContext"
      THEN (params[param].name :> ExecutedParam(param, result_arg)) @@ keys_used
      ELSE keys_used

\* Lines 143-145: the parameter gets its ExecutedParam, which is entered in
\* keys_used unless it is unknown.  key and argument are dead until line 84
\* assigns them again.
AppendResult(result_arg) ==
    /\ result_params' = Append(result_params, ExecutedParam(param, result_arg))
    /\ keys_used' = KeysUsedAfterResult(result_arg)
    /\ key' = None
    /\ argument' = NoArgument
    /\ pc' = "for"

\* Lines 103-105: the parameter was given by keyword.
BindFromKeysUsed ==
    /\ pc = "while"
    /\ key = None
    /\ params[param].name \in DOMAIN keys_used
    /\ result_params' = Append(result_params, keys_used[params[param].name])
    /\ key' = None
    /\ argument' = NoArgument
    /\ pc' = "for"
    /\ UNCHANGED <<inputs, pushes, iterator, non_matching_keys, keys_used,
                   keys_only, had_multiple_value_error, param,
                   remaining_arguments, analysis>>

\* The loop ends at the first item with a key and does not push it back.
RECURSIVE CollectArguments_no_push_back(_, _, _)
CollectArguments_no_push_back(ps, it, lazy_context_list) ==
    IF ~HasNext(ps, it)
      THEN [list |-> lazy_context_list, pushes |-> ps, iterator |-> it]
      ELSE LET t == Take(ps, it)
           IN IF unpacked_va[t.item].key # None
                THEN [list |-> lazy_context_list, pushes |-> t.pushes,
                      iterator |-> t.iterator]
                ELSE CollectArguments_no_push_back(t.pushes, t.iterator,
                                                   Append(lazy_context_list, t.item))

\* The item with the key is pushed back twice.
RECURSIVE CollectArguments_push_back_twice(_, _, _)
CollectArguments_push_back_twice(ps, it, lazy_context_list) ==
    IF ~HasNext(ps, it)
      THEN [list |-> lazy_context_list, pushes |-> ps, iterator |-> it]
      ELSE LET t == Take(ps, it)
           IN IF unpacked_va[t.item].key # None
                THEN [list |-> lazy_context_list,
                      pushes |-> push_back(push_back(t.pushes, t.item), t.item),
                      iterator |-> t.iterator]
                ELSE CollectArguments_push_back_twice(t.pushes, t.iterator,
                                                      Append(lazy_context_list, t.item))

\* Lines 114-119: the items up to the first one with a key, which is pushed
\* back.
RECURSIVE CollectArguments(_, _, _)
CollectArguments(ps, it, lazy_context_list) ==
    IF ~HasNext(ps, it)
      THEN [list |-> lazy_context_list, pushes |-> ps, iterator |-> it]
      ELSE LET t == Take(ps, it)
           IN IF unpacked_va[t.item].key # None
                THEN [list |-> lazy_context_list,
                      pushes |-> push_back(t.pushes, t.item),
                      iterator |-> t.iterator]
                ELSE CollectArguments(t.pushes, t.iterator,
                                      Append(lazy_context_list, t.item))

\* Lines 109-121: a *args parameter.
BindVarPositional ==
    /\ pc = "while"
    /\ key = None
    /\ params[param].name \notin DOMAIN keys_used
    /\ params[param].star_count = 1
    /\ LET c == IF argument # NoArgument
                  THEN CollectArguments(pushes, iterator, <<argument>>)
                  ELSE [list |-> <<>>, pushes |-> pushes, iterator |-> iterator]
       IN /\ pushes' = c.pushes
          /\ iterator' = c.iterator
          /\ AppendResult(FakeSequence(c.list))
    /\ UNCHANGED <<inputs, non_matching_keys, keys_only,
                   had_multiple_value_error, param, remaining_arguments,
                   analysis>>

\* Lines 122-126: a **kwargs parameter.
BindVarKeyword ==
    /\ pc = "while"
    /\ key = None
    /\ params[param].name \notin DOMAIN keys_used
    /\ params[param].star_count = 2
    /\ AppendResult(FakeDict(non_matching_keys))
    /\ non_matching_keys' = <<>>
    /\ UNCHANGED <<inputs, pushes, iterator, keys_only,
                   had_multiple_value_error, param, remaining_arguments,
                   analysis>>

\* The default is evaluated in the context of the execution.
PlainResult_execution_context ==
    IF argument = NoArgument
      THEN IF ~params[param].has_default
             THEN LazyUnknownContext
             ELSE DefaultContext("execution_context", param)
      ELSE ArgumentContext(argument)

\* Lines 127-141: a normal parameter.
PlainResult ==
    IF argument = NoArgument
      THEN IF ~params[param].has_default
             THEN LazyUnknownContext
             ELSE DefaultContext("default_param_context", param)
      ELSE ArgumentContext(argument)

\* The issue is added although there is an argument for the parameter.
TooFewInLoop_with_argument ==
    ~params[param].has_default /\ ~keys_only

\* The issue is added although a keyword was seen.
TooFewInLoop_keys_only_ignored ==
    argument = NoArgument /\ ~params[param].has_default

\* Lines 129-133: the loop reports the parameter as missing.
TooFewInLoop ==
    argument = NoArgument /\ ~params[param].has_default /\ ~keys_only

BindPlain ==
    /\ pc = "while"
    /\ key = None
    /\ params[param].name \notin DOMAIN keys_used
    /\ params[param].star_count = 0
    /\ analysis' =
          IF TooFewInLoop
            THEN analysis \o AddForCallingNodes("type-error-too-few-arguments",
                                 error_argument_count(Len(unpacked_va)))
            ELSE analysis
    /\ AppendResult(PlainResult)
    /\ UNCHANGED <<inputs, pushes, iterator, non_matching_keys, keys_only,
                   had_multiple_value_error, param, remaining_arguments>>

\* Every parameter in the place of the parameters without a value.
UnboundNames_all == ParamNames

\* Line 151: set(param_dict) - set(keys_used)
UnboundNames == ParamNames \ DOMAIN keys_used

\* The test leaves out had_multiple_value_error.
ReportsTooFew_ignores_multiple(k) ==
    ~ (\/ non_matching_keys # <<>>
       \/ params[param_dict(k)].star_count # 0
       \/ params[param_dict(k)].has_default)

\* Line 154: the parameter named k is reported as missing.
ReportsTooFew(k) ==
    ~ (\/ non_matching_keys # <<>>
       \/ had_multiple_value_error
       \/ params[param_dict(k)].star_count # 0
       \/ params[param_dict(k)].has_default)

RECURSIVE Repeat(_, _)
Repeat(s, n) == IF n = 0 THEN <<>> ELSE s \o Repeat(s, n - 1)

\* Lines 147-160: the parameters that are in no way bound.
ConsolidatedPass ==
    /\ pc = "consolidated"
    /\ analysis' =
          IF keys_only
            THEN analysis \o
                 Repeat(AddForCallingNodes("type-error-too-few-arguments",
                                           error_argument_count(Len(unpacked_va))),
                        Cardinality({k \in UnboundNames : ReportsTooFew(k)}))
            ELSE analysis
    /\ pc' = "unexpected"
    /\ UNCHANGED <<inputs, pushes, iterator, non_matching_keys, keys_used,
                   keys_only, had_multiple_value_error, param, key, argument,
                   result_params, remaining_arguments>>

RECURSIVE KeywordIssues(_)
KeywordIssues(d) ==
    IF d = <<>>
      THEN <<>>
      ELSE add_argument_issue("type-error-keyword-argument", Head(d)[2],
                              KeyMessage(Head(d)[1]))
           \o KeywordIssues(Tail(d))

\* Lines 162-170: the keys that match no parameter.
UnexpectedKeywords ==
    /\ pc = "unexpected"
    /\ analysis' = analysis \o KeywordIssues(non_matching_keys)
    /\ pc' = "remaining"
    /\ UNCHANGED <<inputs, pushes, iterator, non_matching_keys, keys_used,
                   keys_only, had_multiple_value_error, param, key, argument,
                   result_params, remaining_arguments>>

\* The last of the remaining arguments in the place of the first.
FirstRemaining_last(remaining) == remaining[Len(remaining)]

\* Line 177: first_key, lazy_context = remaining_arguments[0]
FirstRemaining(remaining) == remaining[1]

\* Lines 172-186: the arguments nobody took.
RemainingArguments ==
    /\ pc = "remaining"
    /\ remaining_arguments' = Remaining(pushes, iterator)
    /\ pushes' = <<>>
    /\ iterator' = Len(unpacked_va)
    /\ analysis' =
          IF remaining_arguments' # <<>> /\ calling_nodes > 0
            THEN analysis \o
                 add_argument_issue("type-error-too-many-arguments",
                                    FirstRemaining(remaining_arguments'),
                                    error_argument_count(Len(unpacked_va)))
            ELSE analysis
    /\ pc' = "return"
    /\ UNCHANGED <<inputs, non_matching_keys, keys_used, keys_only,
                   had_multiple_value_error, param, key, argument,
                   result_params>>

Next ==
    \/ ForNext
    \/ ForExit
    \/ DrainKeyword
    \/ BindFromKeysUsed
    \/ BindVarPositional
    \/ BindVarKeyword
    \/ BindPlain
    \/ ConsolidatedPass
    \/ UnexpectedKeywords
    \/ RemainingArguments

Spec == Init /\ [][Next]_vars

\* ------------------------------------------------------------------------
\* create_default_params
\* ------------------------------------------------------------------------
\* The test for a default comes first, so that a parameter with a star and
\* without a default is unknown.
create_default_param_default_first(p) ==
    IF ~params[p].has_default
      THEN ExecutedParam(p, LazyUnknownContext)
      ELSE ExecutedParam(p, DefaultContext("parent_context", p))

\* Lines 201-214: _create_default_param(execution_context, param)
create_default_param(p) ==
    IF params[p].star_count = 1
      THEN ExecutedParam(p, FakeSequence(<<>>))
      ELSE IF params[p].star_count = 2
        THEN ExecutedParam(p, FakeDict(NoDict))
        ELSE IF ~params[p].has_default
          THEN ExecutedParam(p, LazyUnknownContext)
          ELSE ExecutedParam(p, DefaultContext("parent_context", p))

\* Lines 217-219: create_default_params(execution_context, funcdef)
create_default_params == [p \in DOMAIN params |-> create_default_param(p)]

\* The function is about to be called for a function definition; the
\* arguments of the execution context are there and are not looked at.
InitDefault ==
    /\ params \in Signatures
    /\ unpacked_va \in StreamsFor(params)
    /\ calling_nodes \in 0..MaxCallingNodes
    /\ pushes = <<>>
    /\ iterator = 0
    /\ non_matching_keys = <<>>
    /\ keys_used = NoKeys
    /\ keys_only = FALSE
    /\ had_multiple_value_error = FALSE
    /\ param = 0
    /\ key = None
    /\ argument = NoArgument
    /\ result_params = <<>>
    /\ remaining_arguments = <<>>
    /\ analysis = <<>>
    /\ pc = "create_default_params"

CreateDefaultParams ==
    /\ pc = "create_default_params"
    /\ result_params' = create_default_params
    /\ pc' = "return_default_params"
    /\ UNCHANGED <<inputs, pushes, iterator, non_matching_keys, keys_used,
                   keys_only, had_multiple_value_error, param, key, argument,
                   remaining_arguments, analysis>>

NextDefault == CreateDefaultParams

DefaultSpec == InitDefault /\ [][NextDefault]_vars

\* ------------------------------------------------------------------------
\* Properties
\* ------------------------------------------------------------------------
Returned == pc = "return"

TooFew == "type-error-too-few-arguments"
TooMany == "type-error-too-many-arguments"
MultipleValues == "type-error-multiple-values"
KeywordArgument == "type-error-keyword-argument"

\* The number of issues of one kind in a list of issues.
NumIssues(issues, error_name) ==
    Cardinality({i \in DOMAIN issues : issues[i].name = error_name})

\* The call argument i has a key.
Named(i) == unpacked_va[i].key # None

\* C1: get_executed_params returns one executed parameter for each formal
\* parameter, the i-th of them for the i-th formal parameter, whatever the
\* arguments are.
C1_OneResultPerParam ==
    /\ \A i \in DOMAIN result_params : result_params[i].param_node = i
    /\ Returned => Len(result_params) = Len(params)

\* A malformed call has returned: a parameter given twice by keyword, a key
\* that matches nothing, and a parameter bound from its keyword.
C1_Witness ==
    /\ Returned
    /\ Len(params) >= 2
    /\ had_multiple_value_error
    /\ non_matching_keys # <<>>
    /\ \E i \in DOMAIN result_params :
          /\ result_params[i].lazy_context.origin = "argument"
          /\ Named(result_params[i].lazy_context.arg)

\* C2: in the result every *args parameter is bound to a known sequence and
\* every **kwargs parameter to a known mapping.
C2_VariadicBoundToContainer ==
    Returned =>
       \A i \in DOMAIN params :
          /\ params[i].star_count = 1 =>
                result_params[i].lazy_context.origin = "FakeSequence"
          /\ params[i].star_count = 2 =>
                result_params[i].lazy_context.origin = "FakeDict"

\* C3: a call without calling nodes adds no issue of any kind.
C3_NoCallingNodesNoIssue ==
    calling_nodes = 0 => analysis = <<>>

\* The keyword in hand names a parameter that already has a value: the
\* parameter is behind the loop, or an earlier item had the same key.
AlreadyBound(k) ==
    \/ param_dict(k) <= Len(result_params)
    \/ \E j \in 1..(argument - 1) : unpacked_va[j].key = k

\* The while loop is about to handle a keyword for a bound parameter.
DuplicateInHand ==
    /\ pc = "while"
    /\ key # None
    /\ key \in ParamNames
    /\ AlreadyBound(key)

\* The call argument j was drawn from var_arg_iterator during the loop.
Drawn(j) == \A r \in DOMAIN remaining_arguments : remaining_arguments[r] # j

\* A parameter bound to a call argument is bound to the first drawn item
\* that could give it a value: no drawn keyword for it comes earlier.
FirstValueKept ==
    \A i \in DOMAIN result_params :
       result_params[i].lazy_context.origin = "argument" =>
          \A j \in DOMAIN unpacked_va :
             (unpacked_va[j].key = params[i].name /\ Drawn(j))
                => result_params[i].lazy_context.arg <= j

\* C4 as stated: a keyword for a parameter that already has a value adds a
\* type-error-multiple-values issue and sets had_multiple_value_error, and
\* the result keeps the first value.
C4_DuplicateAlwaysReported ==
    /\ [][DuplicateInHand =>
             /\ NumIssues(analysis', MultipleValues) > NumIssues(analysis, MultipleValues)
             /\ had_multiple_value_error']_vars
    /\ [](Returned => FirstValueKept)

\* C4, amended: a keyword for a parameter that already has a value adds one
\* type-error-multiple-values issue for each calling node (none when there
\* is no calling node) and sets had_multiple_value_error, and the result
\* keeps the first value.
C4_DuplicateReportedPerCallingNode ==
    /\ [][DuplicateInHand =>
             /\ Len(analysis') = Len(analysis) + calling_nodes
             /\ \A n \in 1..calling_nodes :
                   /\ analysis'[Len(analysis) + n].name = MultipleValues
                   /\ analysis'[Len(analysis) + n].node = CallingNode(n)
                   /\ analysis'[Len(analysis) + n].message.key = key
             /\ had_multiple_value_error']_vars
    /\ [](Returned => FirstValueKept)

\* f(1, y=2, x=3) for def f(x, y): x keeps the unnamed argument and the
\* later keyword for x was reported.
C4_Witness ==
    /\ Returned
    /\ had_multiple_value_error
    /\ calling_nodes >= 1
    /\ NumIssues(analysis, MultipleValues) = calling_nodes
    /\ \E i \in DOMAIN result_params :
          /\ result_params[i].lazy_context.origin = "argument"
          /\ ~Named(result_params[i].lazy_context.arg)
          /\ \E j \in DOMAIN unpacked_va :
                /\ unpacked_va[j].key = params[i].name
                /\ Drawn(j)
                /\ j > result_params[i].lazy_context.arg

\* C5: the pass after the loop adds at most one too-few-arguments issue
\* for a calling node, however many parameters are left without a value.
C5_ConsolidatedTooFewOnce ==
    [][pc = "consolidated" =>
          \A n \in 1..calling_nodes :
             Cardinality({i \in DOMAIN analysis' :
                             /\ i > Len(analysis)
                             /\ analysis'[i].name = TooFew
                             /\ analysis'[i].node = CallingNode(n)}) <= 1]_vars

\* The set of the elements of a sequence.
Range(seq) == {seq[i] : i \in DOMAIN seq}

\* The first item of a nonempty list of call arguments in the order of the
\* call.
FirstInCallOrder(seq) == CHOOSE x \in Range(seq) : \A y \in Range(seq) : x <= y

\* C6: at most one too-many-arguments issue is added; it is at the first
\* of the arguments that were left, which are the end of the call's
\* arguments in their order; n plain parameters and m > n unnamed
\* arguments put it at argument n + 1.
C6_TooManyOnceAtFirstLeft ==
    Returned =>
       /\ NumIssues(analysis, TooMany) <= 1
       /\ \A r \in DOMAIN remaining_arguments :
             remaining_arguments[r] =
                Len(unpacked_va) - Len(remaining_arguments) + r
       /\ \A i \in DOMAIN analysis :
             analysis[i].name = TooMany =>
                /\ remaining_arguments # <<>>
                /\ calling_nodes > 0
                /\ analysis[i].node =
                      ArgumentNode(FirstInCallOrder(remaining_arguments))
       /\ ( /\ remaining_arguments # <<>>
            /\ calling_nodes > 0
            /\ unpacked_va[FirstInCallOrder(remaining_arguments)].type
                  = "LazyTreeContext" )
             => NumIssues(analysis, TooMany) = 1
       /\ ( /\ \A p \in DOMAIN params : params[p].star_count = 0
            /\ \A j \in DOMAIN unpacked_va : ~Named(j)
            /\ Len(unpacked_va) > Len(params) )
             => /\ remaining_arguments[1] = Len(params) + 1
                /\ \A i \in DOMAIN analysis :
                      analysis[i].name = TooMany =>
                         analysis[i].node = ArgumentNode(Len(params) + 1)

\* f(1, 2, 3) for def f(x): two arguments are left and the one issue is at
\* the first of them.
C6_Witness ==
    /\ Returned
    /\ Len(remaining_arguments) >= 2
    /\ NumIssues(analysis, TooMany) = 1

\* C7: a call never gets a too-few-arguments issue and a
\* too-many-arguments issue.
C7_NotTooFewAndTooMany ==
    ~ (NumIssues(analysis, TooFew) > 0 /\ NumIssues(analysis, TooMany) > 0)

\* The pass after the loop reported a missing parameter of a call that has
\* arguments.
C7_Witness ==
    /\ Returned
    /\ keys_only
    /\ Len(unpacked_va) >= 2
    /\ NumIssues(analysis, TooFew) > 0

\* A key that names no parameter.
Orphan(j) == Named(j) /\ unpacked_va[j].key \notin ParamNames

\* The key k is a key of the mapping of a **kwargs parameter.
InMapping(k) ==
    \E i \in DOMAIN result_params :
       /\ result_params[i].lazy_context.origin = "FakeDict"
       /\ \E e \in DOMAIN result_params[i].lazy_context.dct :
             result_params[i].lazy_context.dct[e][1] = k

\* C8: with calling nodes, a named argument that matches no parameter is
\* in the end in the mapping of the **kwargs parameter or reported by
\* exactly one type-error-keyword-argument issue for its name, and no issue
\* of another kind is at its node.
C8_OrphanStoredOrReported ==
    (Returned /\ calling_nodes > 0) =>
       \A j \in DOMAIN unpacked_va :
          Orphan(j) =>
             /\ \/ InMapping(unpacked_va[j].key)
                \/ Cardinality({i \in DOMAIN analysis :
                                   /\ analysis[i].name = KeywordArgument
                                   /\ analysis[i].message.key = unpacked_va[j].key}) = 1
             /\ \A i \in DOMAIN analysis :
                   analysis[i].node = ArgumentNode(j) =>
                      analysis[i].name = KeywordArgument

\* The last call argument with the key k.
LastWithKey(k) ==
    CHOOSE j \in DOMAIN unpacked_va :
       /\ unpacked_va[j].key = k
       /\ \A j2 \in DOMAIN unpacked_va : unpacked_va[j2].key = k => j2 <= j

\* The call arguments from..to in their order.
Run(from, to) == [j \in 1..(to - from + 1) |-> from + j - 1]

\* The end of the longest run of unnamed arguments that starts at a.
RunEnd(a) ==
    CHOOSE e \in a..Len(unpacked_va) :
       /\ \A j \in a..e : ~Named(j)
       /\ e = Len(unpacked_va) \/ Named(e + 1)

\* The loop is about to bind a *args parameter that no keyword has bound.
VarPositionalInHand ==
    /\ pc = "while"
    /\ key = None
    /\ params[param].name \notin DOMAIN keys_used
    /\ params[param].star_count = 1

\* The number of unnamed call arguments.
NumUnnamed == Cardinality({j \in DOMAIN unpacked_va : ~Named(j)})

\* def f(*args, **kwargs) called with unnamed arguments followed by named
\* arguments that name no parameter.
StarArgsKwargsCall ==
    /\ Len(params) = 2
    /\ params[1].star_count = 1
    /\ params[2].star_count = 2
    /\ \A j \in DOMAIN unpacked_va :
          IF j <= NumUnnamed THEN ~Named(j) ELSE Orphan(j)

\* C9: f(*args, **kwargs) called with m unnamed arguments and then named
\* arguments that name no parameter binds args to the sequence of the m
\* unnamed arguments in order and kwargs to the mapping of the named ones
\* (a key once, with its last value), without any issue; and whenever a
\* *args parameter is bound it gets the longest run of unnamed arguments
\* from the item in hand, and the iterator goes on with the item after it.
C9_VarPositionalCollectsRun ==
    /\ []((Returned /\ StarArgsKwargsCall) =>
            /\ result_params[1].lazy_context.type = "LazyKnownContext"
            /\ result_params[1].lazy_context.origin = "FakeSequence"
            /\ result_params[1].lazy_context.items = Run(1, NumUnnamed)
            /\ result_params[2].lazy_context.type = "LazyKnownContext"
            /\ result_params[2].lazy_context.origin = "FakeDict"
            /\ LET dct == result_params[2].lazy_context.dct
               IN /\ {dct[e][1] : e \in DOMAIN dct} =
                        {unpacked_va[j].key : j \in (NumUnnamed + 1)..Len(unpacked_va)}
                  /\ \A e \in DOMAIN dct : dct[e][2] = LastWithKey(dct[e][1])
                  /\ \A e1, e2 \in DOMAIN dct : dct[e1][1] = dct[e2][1] => e1 = e2
            /\ analysis = <<>>)
    /\ [][VarPositionalInHand =>
             LET bound == result_params'[Len(result_params')].lazy_context
             IN /\ bound.origin = "FakeSequence"
                /\ IF argument = NoArgument
                     THEN /\ bound.items = <<>>
                          /\ Remaining(pushes', iterator') = <<>>
                     ELSE /\ bound.items = Run(argument, RunEnd(argument))
                          /\ Remaining(pushes', iterator') =
                                Run(RunEnd(argument) + 1, Len(unpacked_va))]_vars

\* f(1, 2, a=3) for def f(*args, **kwargs).
C9_Witness ==
    /\ Returned
    /\ StarArgsKwargsCall
    /\ Len(unpacked_va) = 3
    /\ result_params[1].lazy_context.items = <<1, 2>>
    /\ Len(result_params[2].lazy_context.dct) = 1
    /\ result_params[2].lazy_context.dct[1][2] = 3

\* The loop is about to bind a normal parameter with a default and there is
\* no argument for it.
DefaultInHand ==
    /\ pc = "while"
    /\ key = None
    /\ params[param].name \notin DOMAIN keys_used
    /\ params[param].star_count = 0
    /\ params[param].has_default
    /\ argument = NoArgument

\* The normal parameters without a default.
Required == {i \in DOMAIN params : params[i].star_count = 0 /\ ~params[i].has_default}

\* C10: a normal parameter with a default and without an argument is bound
\* to its default in default_param_context and adds no too-few-arguments
\* issue: only normal parameters without a default that stay unknown are
\* reported; with no arguments and one calling node there is one
\* too-few-arguments issue for each normal parameter without a default.
C10_DefaultInDefiningContext ==
    /\ [][DefaultInHand =>
             LET bound == result_params'[Len(result_params')]
             IN /\ bound.param_node = param
                /\ bound.lazy_context.type = "LazyTreeContext"
                /\ bound.lazy_context.origin = "default"
                /\ bound.lazy_context.arg = param
                /\ bound.lazy_context.context = "default_param_context"
                /\ analysis' = analysis]_vars
    /\ [](Returned =>
            /\ \A i \in DOMAIN params :
                  params[i].has_default =>
                     result_params[i].lazy_context.type # "LazyUnknownContext"
            /\ NumIssues(analysis, TooFew) <=
                  calling_nodes *
                  Cardinality({i \in Required :
                      result_params[i].lazy_context.type = "LazyUnknownContext"})
            /\ (unpacked_va = <<>> /\ calling_nodes = 1) =>
                  NumIssues(analysis, TooFew) = Cardinality(Required))

\* f() for def f(x, y=1): one issue, and y has its default.
C10_Witness ==
    /\ Returned
    /\ Len(params) = 2
    /\ Required = {1}
    /\ params[2].has_default
    /\ unpacked_va = <<>>
    /\ calling_nodes = 1
    /\ NumIssues(analysis, TooFew) = 1
    /\ result_params[2].lazy_context.origin = "default"

\* n normal parameters without defaults, called with n unnamed arguments.
PlainPositionalCall ==
    /\ \A i \in DOMAIN params : params[i].star_count = 0 /\ ~params[i].has_default
    /\ Len(unpacked_va) = Len(params)
    /\ \A j \in DOMAIN unpacked_va : ~Named(j)

\* C11: n normal parameters without defaults and exactly n unnamed
\* arguments: the i-th parameter is bound to the i-th argument, no argument
\* is left and no issue is added.
C11_PositionalRoundTrip ==
    (Returned /\ PlainPositionalCall) =>
       /\ Len(result_params) = Len(params)
       /\ \A i \in DOMAIN params :
             /\ result_params[i].param_node = i
             /\ result_params[i].lazy_context.origin = "argument"
             /\ result_params[i].lazy_context.arg = i
             /\ result_params[i].lazy_context.type = unpacked_va[i].type
       /\ remaining_arguments = <<>>
       /\ pushes = <<>>
       /\ iterator = Len(unpacked_va)
       /\ analysis = <<>>

\* f(a, b, ...) for def f(x, y, ...) with at least two parameters.
C11_Witness ==
    /\ Returned
    /\ PlainPositionalCall
    /\ Len(params) >= 2
    /\ calling_nodes >= 1

\* get_executed_params runs on: a statement that can be executed is executed.
FairSpec == Spec /\ WF_vars(Next)

\* What is left to do: the positions of the function ahead, the parameters
\* ahead, and the items the iterator and the hand still hold.
Stage ==
    CASE pc \in {"for", "while"} -> 4
      [] pc = "consolidated" -> 3
      [] pc = "unexpected" -> 2
      [] pc = "remaining" -> 1
      [] pc = "return" -> 0

WorkLeft ==
    Stage + 2 * (Len(params) - param)
          + (IF pc = "while" THEN 1 ELSE 0)
          + Len(Remaining(pushes, iterator))
          + (IF key # None THEN 1 ELSE 0)

\* C12: for every parameter list and argument list get_executed_params
\* reaches its return with one result for each parameter, whatever issues
\* were added on the way, and every statement, the turns of the while loop
\* and the collecting of *args included, brings the end nearer.
C12_Terminates ==
    /\ <>Returned
    /\ [](Returned => Len(result_params) = Len(params))
    /\ [](WorkLeft >= 0)
    /\ [][WorkLeft' < WorkLeft]_vars

\* A thoroughly malformed call has returned: too few values, a key twice,
\* and an unknown result.
C12_Witness ==
    /\ Returned
    /\ Len(unpacked_va) >= 3
    /\ had_multiple_value_error
    /\ NumIssues(analysis, MultipleValues) > 0
    /\ \E i \in DOMAIN result_params :
          result_params[i].lazy_context.type = "LazyUnknownContext"

\* C13: create_default_params returns one executed parameter for each
\* formal parameter in order: an empty sequence for *args, an empty mapping
\* for **kwargs, the default in the parent context when there is one, and
\* unknown otherwise; the arguments are not drawn and no issue is added.
C13_DefaultParams ==
    pc = "return_default_params" =>
       /\ Len(result_params) = Len(params)
       /\ \A i \in DOMAIN params :
             LET bound == result_params[i].lazy_context
             IN /\ result_params[i].param_node = i
                /\ params[i].star_count = 1 =>
                      /\ bound.type = "LazyKnownContext"
                      /\ bound.origin = "FakeSequence"
                      /\ bound.items = <<>>
                /\ params[i].star_count = 2 =>
                      /\ bound.type = "LazyKnownContext"
                      /\ bound.origin = "FakeDict"
                      /\ bound.dct = <<>>
                /\ (params[i].star_count = 0 /\ params[i].has_default) =>
                      /\ bound.type = "LazyTreeContext"
                      /\ bound.origin = "default"
                      /\ bound.arg = i
                      /\ bound.context = "parent_context"
                /\ (params[i].star_count = 0 /\ ~params[i].has_default) =>
                      bound.type = "LazyUnknownContext"
       /\ analysis = <<>>
       /\ pushes = <<>>
       /\ iterator = 0

\* The parameters of def f(x=1, *args, **kwargs), of a context that has
\* arguments.
C13_Witness ==
    /\ pc = "return_default_params"
    /\ Len(result_params) >= 3
    /\ \E i \in DOMAIN params : params[i].star_count = 1
    /\ \E i \in DOMAIN params : params[i].star_count = 2
    /\ \E i \in DOMAIN params : params[i].has_default
    /\ unpacked_va # <<>>

\* The parameters that need no argument: with a default or with a star.
Optional == {i \in DOMAIN params : params[i].has_default \/ params[i].star_count # 0}

\* C14: the message of every too-few-arguments and too-many-arguments issue
\* says "exactly |P|" when no parameter has a default or a star and
\* "from |P| - d to |P|" otherwise, d being the number of such parameters,
\* and gives the length of the unpacked argument list as the number given.
C14_CountMessage ==
    \A i \in DOMAIN analysis :
       analysis[i].name \in {TooFew, TooMany} =>
          /\ analysis[i].message.takes = Len(params)
          /\ analysis[i].message.given = Len(unpacked_va)
          /\ IF Optional = {}
               THEN analysis[i].message.before = "exactly "
               ELSE /\ analysis[i].message.before = "from"
                    /\ analysis[i].message.lower = Len(params) - Cardinality(Optional)

\* A too-many-arguments issue of a function with a *args parameter and no
\* default, added when only a part of the arguments had been drawn.
C14_Witness ==
    /\ Returned
    /\ \E i \in DOMAIN params : params[i].star_count = 1
    /\ \A i \in DOMAIN params : ~params[i].has_default
    /\ Len(remaining_arguments) >= 1
    /\ \E i \in DOMAIN analysis :
          /\ analysis[i].name = TooMany
          /\ analysis[i].message.before = "from"
          /\ analysis[i].message.given = Len(unpacked_va)

\* The loop is about to bind the parameter from keys_used.
KeysUsedInHand ==
    /\ pc = "while"
    /\ key = None
    /\ params[param].name \in DOMAIN keys_used

\* C15: when a parameter is bound from keys_used, the unnamed item at which
\* the while loop stopped is not used up: it is the next item the iterator
\* yields, before the items that were left.
C15_ItemInHandStays ==
    [][(KeysUsedInHand /\ argument # NoArgument) =>
          Remaining(pushes', iterator') =
             <<argument>> \o Remaining(pushes, iterator)]_vars

\* The parameters whose value is the call argument j itself.
BoundTo(j) ==
    {i \in DOMAIN result_params :
        /\ result_params[i].lazy_context.origin = "argument"
        /\ result_params[i].lazy_context.arg = j}

\* The call argument j is an element of the sequence of a *args parameter.
InSequence(j) ==
    \E i \in DOMAIN result_params :
       /\ result_params[i].lazy_context.origin = "FakeSequence"
       /\ \E e \in DOMAIN result_params[i].lazy_context.items :
             result_params[i].lazy_context.items[e] = j

\* There is an issue of the kind for the key.
IssueForKey(error_name, k) ==
    \E i \in DOMAIN analysis :
       analysis[i].name = error_name /\ analysis[i].message.key = k

\* C16: at the return every call argument is accounted for: it is the value
\* of exactly one parameter, or an element of the *args sequence, or its
\* key is in the **kwargs mapping, or an issue covers it (multiple values
\* or unexpected keyword for its key, or too many arguments when it is left
\* over); and no argument is the value of two parameters.  Stated for calls
\* with a calling node whose arguments all have a node, so that no issue is
\* held back for want of a node.
C16_EveryArgumentAccounted ==
    ( /\ Returned
      /\ calling_nodes > 0
      /\ \A j \in DOMAIN unpacked_va : unpacked_va[j].type = "LazyTreeContext" )
    => \A j \in DOMAIN unpacked_va :
          /\ Cardinality(BoundTo(j)) <= 1
          /\ \/ Cardinality(BoundTo(j)) = 1
             \/ InSequence(j)
             \/ Named(j) /\ InMapping(unpacked_va[j].key)
             \/ Named(j) /\ IssueForKey(MultipleValues, unpacked_va[j].key)
             \/ Named(j) /\ IssueForKey(KeywordArgument, unpacked_va[j].key)
             \/ ~Drawn(j) /\ NumIssues(analysis, TooMany) = 1

\* C17: keys_only never goes back to false and is set by the turn of the
\* while loop on a named item; the loop adds a too-few-arguments issue only
\* while keys_only is false and the pass after the loop only when it is
\* true, so no call gets the issue from both.
C17_KeywordModeStays ==
    /\ [][/\ keys_only => keys_only'
          /\ (pc = "while" /\ key # None) => keys_only'
          /\ ( /\ pc = "while"
               /\ NumIssues(analysis', TooFew) > NumIssues(analysis, TooFew) )
                => (~keys_only /\ ~keys_only')
          /\ ( /\ pc = "consolidated"
               /\ NumIssues(analysis', TooFew) > NumIssues(analysis, TooFew) )
                => (keys_only /\ NumIssues(analysis, TooFew) = 0)]_vars
    /\ []((NumIssues(analysis, TooFew) > 0 /\ pc \in {"for", "while", "consolidated"})
             => ~keys_only)

\* f(y=1) for def f(x, y): the pass after the loop reported x, the loop did
\* not.
C17_Witness ==
    /\ Returned
    /\ keys_only
    /\ calling_nodes >= 1
    /\ NumIssues(analysis, TooFew) = calling_nodes
    /\ \E i \in DOMAIN result_params :
          /\ result_params[i].lazy_context.origin = "argument"
          /\ Named(result_params[i].lazy_context.arg)
    /\ \E i \in DOMAIN result_params : i = 1 /\
          result_params[i].lazy_context.type = "LazyUnknownContext"

\* C18: a call never gets a too-few-arguments issue together with a
\* multiple-values or an unexpected-keyword issue: after a duplicate
\* keyword, or with keys left in non_matching_keys, there is no
\* too-few-arguments issue, whatever parameters stay unknown.
C18_TooFewOnlyAlone ==
    /\ NumIssues(analysis, TooFew) > 0 =>
          /\ NumIssues(analysis, MultipleValues) = 0
          /\ NumIssues(analysis, KeywordArgument) = 0
    /\ (Returned /\ (had_multiple_value_error \/ non_matching_keys # <<>>)) =>
          NumIssues(analysis, TooFew) = 0

\* f(y=1, y=2) for def f(x, y): x stays unknown and only the duplicate is
\* reported.
C18_Witness ==
    /\ Returned
    /\ had_multiple_value_error
    /\ calling_nodes >= 1
    /\ NumIssues(analysis, MultipleValues) >= 1
    /\ NumIssues(analysis, TooFew) = 0
    /\ \E i \in Required :
          result_params[i].lazy_context.type = "LazyUnknownContext"

\* The loop is about to bind a **kwargs parameter that no keyword has bound.
VarKeywordInHand ==
    /\ pc = "while"
    /\ key = None
    /\ params[param].name \notin DOMAIN keys_used
    /\ params[param].star_count = 2

\* The orphan keywords the while loop has handled: all of them among the
\* items drawn, the item in hand being unnamed.
DrainedOrphans == {j \in 1..iterator : Orphan(j)}

\* C19: a **kwargs parameter that no keyword has bound gets the mapping of
\* the orphan keys handled so far, each once with the argument of its last
\* occurrence, and non_matching_keys is emptied; the keys that are reported
\* as unexpected in the end are those of non_matching_keys, which were
\* entered after the arguments of the mapping.
C19_KwargsTakesOrphans ==
    /\ [][VarKeywordInHand =>
             LET dct == result_params'[Len(result_params')].lazy_context.dct
             IN /\ result_params'[Len(result_params')].lazy_context.origin = "FakeDict"
                /\ {dct[e][1] : e \in DOMAIN dct} =
                      {unpacked_va[j].key : j \in DrainedOrphans}
                /\ \A e1, e2 \in DOMAIN dct : dct[e1][1] = dct[e2][1] => e1 = e2
                /\ \A e \in DOMAIN dct :
                      /\ dct[e][2] \in DrainedOrphans
                      /\ unpacked_va[dct[e][2]].key = dct[e][1]
                      /\ \A j \in DrainedOrphans :
                            unpacked_va[j].key = dct[e][1] => j <= dct[e][2]
                /\ non_matching_keys' = <<>>]_vars
    /\ [](\A i \in DOMAIN result_params :
            result_params[i].lazy_context.origin = "FakeDict" =>
               \A e \in DOMAIN result_params[i].lazy_context.dct :
                  \A n \in DOMAIN non_matching_keys :
                     non_matching_keys[n][2] > result_params[i].lazy_context.dct[e][2])
    /\ [](Returned =>
            \A i \in DOMAIN analysis :
               analysis[i].name = KeywordArgument =>
                  \E n \in DOMAIN non_matching_keys :
                     /\ non_matching_keys[n][1] = analysis[i].message.key
                     /\ analysis[i].node = ArgumentNode(non_matching_keys[n][2]))

\* f(q=1, q=2) for def f(**kwargs): the mapping has q once, with the second
\* argument, and nothing is reported.
C19_Witness ==
    /\ Returned
    /\ calling_nodes >= 1
    /\ NumIssues(analysis, KeywordArgument) = 0
    /\ \E i \in DOMAIN result_params :
          /\ result_params[i].lazy_context.origin = "FakeDict"
          /\ Len(result_params[i].lazy_context.dct) = 1
          /\ result_params[i].lazy_context.dct[1][2] >= 2
          /\ \E j \in DOMAIN unpacked_va :
                /\ j < result_params[i].lazy_context.dct[1][2]
                /\ unpacked_va[j].key = result_params[i].lazy_context.dct[1][1]

\* C20: var_arg_iterator never holds more than one pushed-back item; an
\* item is pushed back only when a *args parameter is bound, and it is a
\* named item; the pushed-back item is the next item drawn; and the items
\* come to the binder in the order of the unpacked list: what the iterator
\* still holds is always the end of that list, and an item that comes into
\* hand is the first of it.
C20_OnePushBackInOrder ==
    /\ [](Len(pushes) <= 1)
    /\ [](LET rest == Remaining(pushes, iterator)
          IN rest = Run(Len(unpacked_va) - Len(rest) + 1, Len(unpacked_va)))
    /\ [][/\ Len(pushes') > Len(pushes) =>
                (VarPositionalInHand /\ Named(pushes'[Len(pushes')]))
          /\ (pushes # <<>> /\ pushes' # pushes) =>
                \/ argument' = pushes[Len(pushes)]
                \/ /\ remaining_arguments' # <<>>
                   /\ remaining_arguments'[1] = pushes[Len(pushes)]
          /\ (argument' # NoArgument /\ argument' # argument) =>
                /\ Remaining(pushes, iterator) # <<>>
                /\ argument' = Remaining(pushes, iterator)[1]]_vars

\* f(1, q=2) for def f(*args, **kwargs), between the two parameters: the
\* named argument is pushed back.
C20_Witness ==
    /\ pc = "for"
    /\ Len(pushes) = 1
    /\ Named(pushes[1])
    /\ param < Len(params)
    /\ Len(result_params) = param
    /\ result_params[param].lazy_context.origin = "FakeSequence"
    /\ result_params[param].lazy_context.items # <<>>

====
